---- MODULE Spec2Model ----
(***************************************************************************)
(* Batch startup scraper: src/scrape.py (BatchStartupScraper, main) and    *)
(* src/startup_searcher.py (StartupSearcher).                              *)
(*                                                                         *)
(* Representation.  A Python dict is a function whose DOMAIN is the set of *)
(* keys present.  A JSON value is a tagged record [kind, chars, map]:      *)
(* a string is kind "str" with its characters in chars, an object is kind  *)
(* "dict" with its members in map, null is kind "null".  A response text   *)
(* is a sequence of tokens: "{" and "}" are the brace characters, "w" is a *)
(* run of prose without braces, and a member token ("hs:YES", ...) is one  *)
(* well-formed  "key": value  member of a JSON object.                     *)
(***************************************************************************)
EXTENDS Integers, Sequences, FiniteSets, TLC

\* ------------------------------------------------------------------ bounds
MaxNames == 2        \* longest startup_list passed to scrape_startups
MaxQueries == 2      \* external queries issued over the life of one scraper
MaxReportLen == 2    \* longest sequence handed to generate_summary_report
MaxTextLen == 4      \* longest response text given to search_startup_info alone
MaxListLen == 12     \* longest sequence whose hiring companies are listed

NameSet == {"A", "B"}

\* ------------------------------------------------------------- JSON values
Str(cs) == [kind |-> "str", chars |-> cs, map |-> <<>>]
Dict(m) == [kind |-> "dict", chars |-> <<>>, map |-> m]
List == [kind |-> "list", chars |-> <<>>, map |-> <<>>]
Null == [kind |-> "null", chars |-> <<>>, map |-> <<>>]

\* dict.get(key, default)
Get(d, key, default) == IF key \in DOMAIN d THEN d[key] ELSE default

\* str.lower(), character by character
LowerChar(c) ==
  CASE c = "Y" -> "y"
    [] c = "E" -> "e"
    [] c = "S" -> "s"
    [] c = "N" -> "n"
    [] c = "O" -> "o"
    [] OTHER -> c

Lower(cs) == [k \in DOMAIN cs |-> LowerChar(cs[k])]

Unknown == Str(<<"u", "n", "k", "n", "o", "w", "n">>)

\* the literal contact_info of every fallback and error record
NotFoundContacts ==
  Dict([website |-> "Not found", email |-> "Not found", linkedin |-> "Not found",
        twitter |-> "Not found", other |-> "Not found"])

ErrorDescription == <<"Error occurred during search">>

\* --------------------------------------------------------- response tokens
MemberTokens == {"d", "kw", "hs:yes", "hs:YES", "hs:Yes", "hs:no", "hs:No",
                 "hs:maybe", "hs:", "hs:null", "ci:web", "ci:mail", "ci:null"}

MemberKey(tok) ==
  CASE tok = "d" -> "description"
    [] tok = "kw" -> "keywords"
    [] tok \in {"ci:web", "ci:mail", "ci:null"} -> "contact_info"
    [] OTHER -> "hiring_status"

MemberVal(tok) ==
  CASE tok = "d" -> <<"d">>
    [] tok = "kw" -> List
    [] tok = "hs:yes" -> Str(<<"y", "e", "s">>)
    [] tok = "hs:YES" -> Str(<<"Y", "E", "S">>)
    [] tok = "hs:Yes" -> Str(<<"Y", "e", "s">>)
    [] tok = "hs:no" -> Str(<<"n", "o">>)
    [] tok = "hs:No" -> Str(<<"N", "o">>)
    [] tok = "hs:maybe" -> Str(<<"m", "a", "y", "b", "e">>)
    [] tok = "hs:" -> Str(<<>>)
    [] tok = "hs:null" -> Null
    [] tok = "ci:web" ->
         Dict([website |-> "https://acme.io", email |-> "Not found"])
    [] tok = "ci:mail" ->
         Dict([website |-> "Not found", email |-> "hi@acme.io"])
    [] OTHER -> Null

\* str.find / str.rfind: 0-based index of the first / last occurrence, or -1
Find(text, c) ==
  LET hits == {k \in DOMAIN text : text[k] = c}
  IN IF hits = {} THEN -1
     ELSE (CHOOSE k \in hits : \A h \in hits : k <= h) - 1

RFind(text, c) ==
  LET hits == {k \in DOMAIN text : text[k] = c}
  IN IF hits = {} THEN -1
     ELSE (CHOOSE k \in hits : \A h \in hits : k >= h) - 1

\* text[start:end] for 0 <= start and 0 <= end
Slice(text, start, end) == SubSeq(text, start + 1, end)

\* json.loads: an object is "{", members, "}"; a later member replaces an
\* earlier one with the same key.  ok = FALSE stands for JSONDecodeError.
JsonLoads(s) ==
  LET n == Len(s)
      wellFormed == /\ n >= 2
                    /\ s[1] = "{"
                    /\ s[n] = "}"
                    /\ \A k \in 2..(n - 1) : s[k] \in MemberTokens
      keys == {MemberKey(s[k]) : k \in 2..(n - 1)}
      last(key) == CHOOSE k \in 2..(n - 1) :
                     /\ MemberKey(s[k]) = key
                     /\ \A h \in 2..(n - 1) : MemberKey(s[h]) = key => h <= k
  IN IF wellFormed
     THEN [ok |-> TRUE, val |-> [key \in keys |-> MemberVal(s[last(key)])]]
     ELSE [ok |-> FALSE, val |-> <<>>]


\* ------------------------------------------------- StartupSearcher (client)
\* What the external query capability does with one request: it fails with
\* a fault, or it answers with a text.
Fault(m) == [kind |-> "fault", msg |-> m, text |-> <<>>]
Answer(t) == [kind |-> "text", msg |-> "", text |-> t]

\* a fallback record that always carries the raw text a second time
FallbackRecordWithRaw(name, text) ==
  [startup_name |-> name, description |-> text, hiring_status |-> Unknown,
   contact_info |-> NotFoundContacts, raw_response |-> text]

\* the structured record built when no JSON is found (lines 83-94)
FallbackRecord(name, text) ==
  [startup_name |-> name, description |-> text, hiring_status |-> Unknown,
   contact_info |-> NotFoundContacts]

\* an error record that names a website
SearchErrorRecordWithWebsite(name, e) ==
  [startup_name |-> name, error |-> <<"Failed to search for startup: ", e>>,
   description |-> ErrorDescription, hiring_status |-> Unknown,
   contact_info |->
     Dict([website |-> "https://acme.io", email |-> "Not found",
           linkedin |-> "Not found", twitter |-> "Not found",
           other |-> "Not found"])]

\* the record of the except clause of search_startup_info (lines 115-127)
SearchErrorRecord(name, e) ==
  [startup_name |-> name, error |-> <<"Failed to search for startup: ", e>>,
   description |-> ErrorDescription, hiring_status |-> Unknown,
   contact_info |-> NotFoundContacts]

\* the inner try with a test of the closing brace that can fail
ParseResponseBothBraces(name, response_text) ==
  LET start_idx == Find(response_text, "{")
      end_idx == RFind(response_text, "}")
  IN IF start_idx # -1 /\ end_idx # -1
     THEN LET parsed == JsonLoads(Slice(response_text, start_idx, end_idx + 1))
          IN IF parsed.ok
             THEN parsed.val
             ELSE FallbackRecord(name, response_text)
                    @@ [raw_response |-> response_text]
     ELSE FallbackRecord(name, response_text)

\* the inner try of search_startup_info (lines 73-112)
ParseResponse(name, response_text) ==
  LET start_idx == Find(response_text, "{")
      end_idx == RFind(response_text, "}") + 1
  IN IF start_idx # -1 /\ end_idx # -1
     THEN LET parsed == JsonLoads(Slice(response_text, start_idx, end_idx))
          IN IF parsed.ok
             THEN parsed.val
             ELSE FallbackRecord(name, response_text)
                    @@ [raw_response |-> response_text]
     ELSE FallbackRecord(name, response_text)

\* the outer try of search_startup_info up to its except clause (lines
\* 62-112): exc is the fault raised by the invocation ("none" when it
\* answered), val the record the body returns.
SearchTryBody(name, outcome) ==
  IF outcome.kind = "fault"
  THEN [exc |-> outcome.msg, val |-> <<>>]
  ELSE [exc |-> "none", val |-> ParseResponse(name, outcome.text)]

\* search_startup_info without its except clause
SearchStartupInfoUncaught(name, outcome) ==
  LET body == SearchTryBody(name, outcome)
  IN [exc |-> body.exc, val |-> body.val, calls |-> 1]

\* search_startup_info: exc is the exception that leaves the method ("none"
\* when it returns), val the returned record, calls the number of times
\* client.messages.create was invoked (the first when the method is entered).
SearchStartupInfo(name, outcome) ==
  LET body == SearchTryBody(name, outcome)
  IN IF body.exc # "none"
     THEN [exc |-> "none", val |-> SearchErrorRecord(name, body.exc), calls |-> 1]
     ELSE [exc |-> "none", val |-> body.val, calls |-> 1]

\* --------------------------------------------- BatchStartupScraper (runner)
\* the record of the except clause of scrape_startups (lines 98-110)
ErrorInfo(name, e) ==
  [startup_name |-> name, error |-> <<"Unexpected error: ", e>>,
   description |-> ErrorDescription, hiring_status |-> Unknown,
   contact_info |-> NotFoundContacts]

\* the brief display of one result (lines 76-91): the exception it raises,
\* "none" when it prints.  status.lower() needs a string, .get a dict.
DisplayFault(startup_info) ==
  IF "error" \notin DOMAIN startup_info
  THEN IF Get(startup_info, "hiring_status", Unknown).kind # "str"
       THEN "AttributeError: lower"
       ELSE IF Get(startup_info, "contact_info", Dict(<<>>)).kind # "dict"
            THEN "AttributeError: get"
            ELSE "none"
  ELSE "none"

\* A file: never written, holding the last content written in full, or left
\* truncated by a write that failed after the file was opened.
NoFile == [status |-> "absent", content |-> <<>>]
Written(rs) == [status |-> "written", content |-> rs]
Truncated == [status |-> "truncated", content |-> <<>>]

\* what can happen to one write: it succeeds, open() fails, json.dump fails
WriteOutcomes == {"ok", "open_failed", "dump_failed"}

FileAfter(file, rs, w) ==
  CASE w = "ok" -> Written(rs)
    [] w = "open_failed" -> file
    [] OTHER -> Truncated

\* a checkpoint that holds the newest record only
SaveProgressLastOnly(rs, file, w) ==
  [file |-> FileAfter(file, <<rs[Len(rs)]>>, w), exc |-> "none"]

\* _save_progress without its except clause
SaveProgressUncaught(rs, file, w) ==
  [file |-> FileAfter(file, rs, w), exc |-> IF w = "ok" THEN "none" ELSE "OSError"]

\* _save_progress (lines 123-129): the write fault is caught and logged
SaveProgress(rs, file, w) ==
  [file |-> FileAfter(file, rs, w), exc |-> "none"]

\* an except clause that lets the exception go on
HandleUnexpectedReraise(rs, name, e) == [results |-> rs, exc |-> e]

\* the except clause of the loop body (lines 97-112)
HandleUnexpected(rs, name, e) ==
  [results |-> Append(rs, ErrorInfo(name, e)), exc |-> "none"]

\* one iteration's try statement (lines 70-112), given what the search did:
\* the new result sequence, the checkpoint file, the exception that leaves
\* the try statement, and whether the display raised.
LoopBody(rs, name, sr, output_file, file, w) ==
  IF sr.exc # "none"
  THEN HandleUnexpected(rs, name, sr.exc) @@ [file |-> file, displayFault |-> FALSE]
  ELSE LET rs1 == Append(rs, sr.val)
           df == DisplayFault(sr.val)
       IN IF df # "none"
          THEN HandleUnexpected(rs1, name, df) @@ [file |-> file, displayFault |-> TRUE]
          ELSE IF output_file
               THEN LET saved == SaveProgress(rs1, file, w)
                    IN IF saved.exc # "none"
                       THEN HandleUnexpected(rs1, name, saved.exc)
                              @@ [file |-> saved.file, displayFault |-> FALSE]
                       ELSE [results |-> rs1, exc |-> "none", file |-> saved.file,
                             displayFault |-> FALSE]
               ELSE [results |-> rs1, exc |-> "none", file |-> file,
                     displayFault |-> FALSE]

\* a delay after the last request too
NeedsDelayAlways(i, n) == i <= n

\* line 115: the delay is taken unless this was the last request
NeedsDelay(i, n) == i < n

\* save_results (lines 131-159): nothing is written for an empty sequence,
\* and a write fault is caught
SaveResults(rs, file, w) == IF rs = <<>> THEN file ELSE FileAfter(file, rs, w)

\* ---------------------------------------------------------- summary report
HiringStatus(r) == Get(r, "hiring_status", Str(<<>>))
ContactInfo(r) == Get(r, "contact_info", Dict(<<>>))

\* a match that is sensitive to case
IsHiringExact(r) == HiringStatus(r).chars = <<"y", "e", "s">>

IsHiring(r) == Lower(HiringStatus(r).chars) = <<"y", "e", "s">>
IsNotHiring(r) == Lower(HiringStatus(r).chars) = <<"n", "o">>
HasContact(r, key) == Get(ContactInfo(r).map, key, "Not found") # "Not found"

CountOf(rs, Test(_)) == Cardinality({k \in DOMAIN rs : Test(rs[k])})

HasError(r) == "error" \in DOMAIN r

\* line 189
HiringUnknown(total, hiring_yes, hiring_no) == total - hiring_yes - hiring_no

\* line 227: at most this many hiring companies are listed
ListCap == 10

\* a listing without a cap
ListedAll(hiring_companies) == hiring_companies

\* lines 226-230: the hiring companies that get a line, the first ListCap
Listed(hiring_companies) ==
  SubSeq(hiring_companies, 1,
         IF Len(hiring_companies) < ListCap THEN Len(hiring_companies)
                                            ELSE ListCap)

\* lines 232-233: the "... and k more" line
Remainder(hiring_companies) ==
  IF Len(hiring_companies) > ListCap
  THEN [printed |-> TRUE, count |-> Len(hiring_companies) - ListCap]
  ELSE [printed |-> FALSE, count |-> 0]

\* lines 175-233, what generate_summary_report does past its test for an
\* empty input.  stage tells how far it got: "raised_hiring" (.lower() on a
\* status that is not a string, line 184), "raised_contact" (.get on a
\* contact_info that is not a dict, line 196), "raised_division" (a
\* percentage of lines 209-219 with total = 0) or "printed".  The record
\* holds what was computed; divisor is the divisor of every percentage.
ReportBody(rs) ==
  LET total == Len(rs)
      errors == CountOf(rs, HasError)
      counts == [total |-> total, errors |-> errors,
                 successful |-> total - errors]
  IN IF \E k \in DOMAIN rs : HiringStatus(rs[k]).kind # "str"
     THEN [stage |-> "raised_hiring"] @@ counts
     ELSE LET hiring_yes == CountOf(rs, IsHiring)
              hiring_no == CountOf(rs, IsNotHiring)
              hiring == [hiring_yes |-> hiring_yes, hiring_no |-> hiring_no,
                         hiring_unknown |->
                           HiringUnknown(total, hiring_yes, hiring_no)]
          IN IF \E k \in DOMAIN rs : ContactInfo(rs[k]).kind # "dict"
             THEN [stage |-> "raised_contact"] @@ counts @@ hiring
             ELSE LET website(r) == HasContact(r, "website")
                      email(r) == HasContact(r, "email")
                      contacts == [has_website |-> CountOf(rs, website),
                                   has_email |-> CountOf(rs, email)]
                      hiring_companies == SelectSeq(rs, IsHiring)
                  IN IF total = 0
                     THEN [stage |-> "raised_division"]
                            @@ counts @@ hiring @@ contacts
                     ELSE [stage |-> "printed",
                           divisor |-> total,
                           hiring_companies |-> hiring_companies,
                           listed |-> Listed(hiring_companies),
                           more |-> Remainder(hiring_companies)]
                            @@ counts @@ hiring @@ contacts

\* the report without its test for an empty input
SummaryReportNoEmptyTest(rs) == ReportBody(rs)

\* generate_summary_report (lines 161-233); the caller has resolved
\* results=None to self.results (lines 168-169).  Lines 171-173: an empty
\* input prints "No results to analyze." and returns
SummaryReport(rs) ==
  IF rs = <<>> THEN [stage |-> "nothing"] ELSE ReportBody(rs)

NoReport == [stage |-> "none"]

\* ------------------------------------------------------------------- state
VARIABLES
  pc,            \* where the caller is: "idle", "loop", "query", "paced",
                 \* "returned", "interrupted", "raised"
  names,         \* startup_list of the current call of scrape_startups
  output_file,   \* TRUE when the call was given an output_file
  i,             \* the loop counter of scrape_startups
  results,       \* the local result sequence of scrape_startups
  self_results,  \* self.results
  ckpt,          \* the file named by output_file
  final_file,    \* the timestamped file main writes after this run
  partial_file,  \* partial_results.json
  ret,           \* what this call of scrape_startups returned
  report,        \* what generate_summary_report computed since the call began
  info,          \* what the last search_startup_info of this run returned
  searchExc,     \* the exception that left that search_startup_info
  lastOutcome,   \* what the query capability did in that search
  searchCalls,   \* calls of search_startup_info in this run
  apiCalls,      \* invocations of client.messages.create in this run
  queried,       \* the names queried in this run, in order
  delays,        \* time.sleep calls in this run
  wfaults,       \* checkpoint writes of this run that failed
  faulted,       \* loop indices of this run whose processing hit a fault
  issued,        \* queries issued since the scraper was constructed
  arg,           \* the results argument of a direct generate_summary_report
  cred,          \* the api_key argument and ANTHROPIC_API_KEY of the process
  outstanding,   \* requests sent to the query capability and not yet ended
  lastWritten    \* the last checkpoint write of this run that succeeded

vars == <<pc, names, output_file, i, results, self_results, ckpt, final_file,
          partial_file, ret, report, info, searchExc, lastOutcome, searchCalls,
          apiCalls, queried, delays, wfaults, faulted, issued, arg, cred,
                 outstanding, lastWritten>>

persistent == <<self_results, ckpt, partial_file>>
thisRun == <<final_file, report>>
lastSearch == <<info, searchExc, lastOutcome>>

\* name lists and responses the runs draw from
RECURSIVE SeqsUpTo(_, _)
SeqsUpTo(S, n) ==
  IF n = 0 THEN {<<>>}
  ELSE LET shorter == SeqsUpTo(S, n - 1)
       IN shorter \cup {Append(q, x) : q \in {t \in shorter : Len(t) = n - 1}, x \in S}

\* the lists a call can be given; the first name of a list is called "A"
NameLists == {nl \in SeqsUpTo(NameSet, MaxNames) : nl = <<>> \/ nl[1] = "A"}

RunOutcomes ==
  { Fault("timeout"),
    Answer(<<"w">>),
    Answer(<<"w", "{", "d", "kw", "hs:YES", "ci:web", "}", "w">>),
    Answer(<<"{", "}">>),
    Answer(<<"{", "hs:null", "}">>) }

\* results=None, or an explicit sequence
NoArg == [given |-> FALSE, value |-> <<>>]
Given(rs) == [given |-> TRUE, value |-> rs]

\* BatchStartupScraper.__init__ (lines 17-19)
\* nothing has run: the fields as __init__ sets them (scrape.py line 19) and
\* the files not written
NothingRun ==
  /\ names = <<>>
  /\ output_file = FALSE
  /\ i = 0
  /\ results = <<>>
  /\ self_results = <<>>
  /\ ckpt = NoFile
  /\ final_file = NoFile
  /\ partial_file = NoFile
  /\ ret = <<>>
  /\ report = NoReport
  /\ info = <<>>
  /\ searchExc = "none"
  /\ lastOutcome = Answer(<<>>)
  /\ searchCalls = 0
  /\ apiCalls = 0
  /\ queried = <<>>
  /\ delays = 0
  /\ wfaults = 0
  /\ faulted = {}
  /\ issued = 0
  /\ outstanding = 0
  /\ lastWritten = NoFile

\* the scraper has been constructed and no method of it called
Constructed == pc = "idle" /\ NothingRun

\* main constructs the scraper without api_key; the key is in the environment
MainCred == [api_key |-> "None", env |-> "sk-key"]

Init == Constructed /\ arg = NoArg /\ cred = MainCred

\* scrape_startups without the test of line 57: an empty list runs the loop
\* zero times and reaches line 119
ScrapeStartNoEmptyTest ==
  /\ pc \in {"idle", "interrupted"}
  /\ \E startup_list \in NameLists, file \in BOOLEAN :
       /\ issued + Len(startup_list) <= MaxQueries
       /\ names' = startup_list
       /\ output_file' = file
       /\ IF startup_list = <<>>
          THEN /\ pc' = "returned"
               /\ i' = 0
               /\ self_results' = <<>>
          ELSE /\ pc' = "loop"
               /\ i' = 1
               /\ self_results' = self_results
  /\ ret' = <<>>
  /\ final_file' = NoFile
  /\ report' = NoReport
  /\ info' = <<>>
  /\ searchExc' = "none"
  /\ lastOutcome' = Answer(<<>>)
  /\ results' = <<>>
  /\ searchCalls' = 0
  /\ apiCalls' = 0
  /\ queried' = <<>>
  /\ delays' = 0
  /\ wfaults' = 0
  /\ faulted' = {}
  /\ lastWritten' = NoFile
  /\ UNCHANGED <<ckpt, partial_file, issued, arg, cred, outstanding>>

\* scrape_startups is called (lines 57-65): an empty list returns at once
ScrapeStart ==
  /\ pc \in {"idle", "interrupted"}
  /\ \E startup_list \in NameLists, file \in BOOLEAN :
       /\ issued + Len(startup_list) <= MaxQueries
       /\ names' = startup_list
       /\ output_file' = file
       /\ IF startup_list = <<>>
          THEN /\ pc' = "returned"
               /\ i' = 0
          ELSE /\ pc' = "loop"
               /\ i' = 1
  /\ ret' = <<>>
  /\ final_file' = NoFile
  /\ report' = NoReport
  /\ info' = <<>>
  /\ searchExc' = "none"
  /\ lastOutcome' = Answer(<<>>)
  /\ results' = <<>>
  /\ searchCalls' = 0
  /\ apiCalls' = 0
  /\ queried' = <<>>
  /\ delays' = 0
  /\ wfaults' = 0
  /\ faulted' = {}
  /\ lastWritten' = NoFile
  /\ UNCHANGED <<persistent, issued, arg, cred, outstanding>>

\* every request asks for the first name of the list
SearchCallFirstName ==
  /\ pc = "loop"
  /\ i <= Len(names)
  /\ pc' = "query"
  /\ searchCalls' = searchCalls + 1
  /\ apiCalls' = apiCalls + 1
  /\ issued' = issued + 1
  /\ queried' = Append(queried, names[1])
  /\ outstanding' = outstanding + 1
  /\ UNCHANGED <<names, output_file, i, results, persistent, thisRun, ret,
                 lastSearch, delays, wfaults, faulted, arg, cred, lastWritten>>

\* line 72: search_startup_info(startup_name) is entered and the request sent
SearchCall ==
  /\ pc = "loop"
  /\ i <= Len(names)
  /\ pc' = "query"
  /\ searchCalls' = searchCalls + 1
  /\ apiCalls' = apiCalls + 1
  /\ issued' = issued + 1
  /\ queried' = Append(queried, names[i])
  /\ outstanding' = outstanding + 1
  /\ UNCHANGED <<names, output_file, i, results, persistent, thisRun, ret,
                 lastSearch, delays, wfaults, faulted, arg, cred, lastWritten>>

\* the request ends and the rest of the try statement runs (lines 72-112)
ProcessEntity ==
  /\ pc = "query"
  /\ \E outcome \in RunOutcomes, w \in WriteOutcomes :
       LET sr == SearchStartupInfo(names[i], outcome)
           body == LoopBody(results, names[i], sr, output_file, ckpt, w)
           saving == sr.exc = "none" /\ ~body.displayFault /\ output_file
       IN /\ info' = sr.val
          /\ searchExc' = sr.exc
          /\ lastOutcome' = outcome
          /\ apiCalls' = apiCalls + (sr.calls - 1)
          /\ results' = body.results
          /\ ckpt' = body.file
          /\ wfaults' = IF saving /\ w # "ok" THEN wfaults + 1 ELSE wfaults
          /\ lastWritten' = IF saving /\ w = "ok" THEN body.file ELSE lastWritten
          /\ faulted' = IF outcome.kind = "fault" \/ sr.exc # "none"
                           \/ body.displayFault
                        THEN faulted \cup {i} ELSE faulted
          /\ pc' = IF body.exc # "none" THEN "raised" ELSE "paced"
  /\ outstanding' = outstanding - 1
  /\ UNCHANGED <<names, output_file, i, self_results, final_file, partial_file,
                 ret, report, searchCalls, queried, delays, issued, arg, cred>>

\* lines 115-117, then the for statement advances
Pace ==
  /\ pc = "paced"
  /\ delays' = IF NeedsDelay(i, Len(names)) THEN delays + 1 ELSE delays
  /\ i' = i + 1
  /\ pc' = "loop"
  /\ UNCHANGED <<names, output_file, results, persistent, thisRun, ret,
                 lastSearch, searchCalls, apiCalls, queried, wfaults, faulted,
                 issued, arg, cred,
                 outstanding, lastWritten>>

\* the loop is exhausted (lines 119-121)
Finish ==
  /\ pc = "loop"
  /\ i > Len(names)
  /\ self_results' = results
  /\ ret' = results
  /\ pc' = "returned"
  /\ UNCHANGED <<names, output_file, i, results, ckpt, final_file, partial_file,
                 report, lastSearch, searchCalls, apiCalls, queried, delays,
                 wfaults, faulted, issued, arg, cred,
                 outstanding, lastWritten>>

\* main after the call returned (lines 272-275): save_results(results) to a
\* fresh timestamped file, then generate_summary_report(results)
MainAfterRun ==
  /\ pc = "returned"
  /\ \E w \in WriteOutcomes : final_file' = SaveResults(ret, NoFile, w)
  /\ report' = SummaryReport(ret)
  /\ pc' = "idle"
  /\ UNCHANGED <<names, output_file, i, results, self_results, ckpt,
                 partial_file, ret, lastSearch, searchCalls, apiCalls, queried,
                 delays, wfaults, faulted, issued, arg, cred,
                 outstanding, lastWritten>>

\* a handler that saves and reports what the interrupted call had collected
InterruptSavesCollected ==
  /\ pc \in {"loop", "query", "paced"}
  /\ pc' = "interrupted"
  /\ IF results # <<>>
     THEN /\ \E w \in WriteOutcomes :
               partial_file' = SaveResults(results, partial_file, w)
          /\ report' = SummaryReport(results)
     ELSE UNCHANGED <<partial_file, report>>
  /\ outstanding' = 0
  /\ UNCHANGED <<names, output_file, i, results, self_results, ckpt, final_file,
                 ret, lastSearch, searchCalls, apiCalls, queried, delays,
                 wfaults, faulted, issued, arg, cred, lastWritten>>

\* KeyboardInterrupt during scrape_startups: no except clause of the method
\* catches it (a request in flight is abandoned), so main's handler runs
\* (lines 279-284)
Interrupt ==
  /\ pc \in {"loop", "query", "paced"}
  /\ pc' = "interrupted"
  /\ IF self_results # <<>>
     THEN /\ \E w \in WriteOutcomes :
               partial_file' = SaveResults(self_results, partial_file, w)
          /\ report' = SummaryReport(self_results)
     ELSE UNCHANGED <<partial_file, report>>
  /\ outstanding' = 0
  /\ UNCHANGED <<names, output_file, i, results, self_results, ckpt, final_file,
                 ret, lastSearch, searchCalls, apiCalls, queried, delays,
                 wfaults, faulted, issued, arg, cred, lastWritten>>

Next ==
  \/ ScrapeStart
  \/ SearchCall
  \/ ProcessEntity
  \/ Pace
  \/ Finish
  \/ MainAfterRun
  \/ Interrupt

Spec == Init /\ [][Next]_vars

\* ------------------------------------------- the report called on its own
ReportOutcomes ==
  {Fault("timeout"), Answer(<<"w">>), Answer(<<"{", "w", "}">>), Answer(<<"{", "}">>)}
    \cup {Answer(<<"{", m, "}">>) : m \in MemberTokens}

\* the records a result sequence can hold
ReportRecords ==
  {SearchStartupInfo("A", o).val : o \in ReportOutcomes}
    \cup {ErrorInfo("A", "AttributeError: lower")}

ReportInputs == {NoArg} \cup {Given(rs) : rs \in SeqsUpTo(ReportRecords, MaxReportLen)}

InitReport == Constructed /\ arg \in ReportInputs /\ cred = MainCred

\* generate_summary_report(results) called on the constructed scraper
\* (lines 168-169 pick self.results when no sequence is given)
ReportCall ==
  /\ pc = "idle"
  /\ report = NoReport
  /\ report' = SummaryReport(IF arg.given THEN arg.value ELSE self_results)
  /\ UNCHANGED <<pc, names, output_file, i, results, self_results, ckpt,
                 final_file, partial_file, ret, lastSearch, searchCalls,
                 apiCalls, queried, delays, wfaults, faulted, issued, arg, cred,
                 outstanding, lastWritten>>

NextReport == ReportCall

SpecReport == InitReport /\ [][NextReport]_vars

\* ------------------------------------- the listing of the hiring companies
\* the answer behind the k-th record of a long sequence: a hiring company
\* (in one of three spellings) or not (a "no", or a fault)
ListOutcome(k, hiring) ==
  IF hiring
  THEN CASE k % 3 = 0 -> Answer(<<"{", "hs:yes", "ci:web", "}">>)
         [] k % 3 = 1 -> Answer(<<"{", "hs:YES", "}">>)
         [] OTHER -> Answer(<<"{", "hs:Yes", "ci:mail", "}">>)
  ELSE IF k % 2 = 0 THEN Answer(<<"{", "hs:no", "}">>) ELSE Fault("timeout")

ListRecord(k, hiring) == SearchStartupInfo("A", ListOutcome(k, hiring)).val

\* generate_summary_report is given a sequence of up to MaxListLen records,
\* any of them hiring
InitListing ==
  /\ Constructed
  /\ cred = MainCred
  /\ \E n \in 0..MaxListLen : \E S \in SUBSET (1..n) :
       arg = Given([k \in 1..n |-> ListRecord(k, k \in S)])

NextListing == ReportCall

SpecListing == InitListing /\ [][NextListing]_vars

\* ------------------------------------------------- main, from its start
\* the values an api_key argument or the environment variable can have
KeyValues == {"None", "", "sk-key"}

\* Python's truth test of None and of a string
Falsy(v) == v \in {"None", ""}

\* startup_searcher.py line 20: api_key or os.getenv("ANTHROPIC_API_KEY")
ApiKey(c) == IF Falsy(c.api_key) THEN c.env ELSE c.api_key

\* a constructor that accepts any key
CredentialMissingNever(c) == FALSE

\* startup_searcher.py line 21: not self.api_key
CredentialMissing(c) == Falsy(ApiKey(c))

\* the program starts (line 238); main passes no api_key (line 243), another
\* caller of BatchStartupScraper may pass one
InitMain ==
  /\ pc = "new"
  /\ NothingRun
  /\ arg = NoArg
  /\ cred \in [api_key : KeyValues, env : KeyValues]

\* BatchStartupScraper(...) (scrape.py lines 17-19) constructs the
\* StartupSearcher (startup_searcher.py lines 19-26); its ValueError reaches
\* the except clause of main at line 286, which prints it and ends
Construct ==
  /\ pc = "new"
  /\ pc' = IF CredentialMissing(cred) THEN "config_fault" ELSE "constructed"
  /\ UNCHANGED <<names, output_file, i, results, self_results, ckpt,
                 final_file, partial_file, ret, report, lastSearch,
                 searchCalls, apiCalls, queried, delays, wfaults, faulted,
                 issued, arg, cred, outstanding, lastWritten>>

\* main lines 246-269: the list is read; an empty list or an answer other
\* than "y" ends the program, else scrape_startups(startups) is entered
\* without an output_file
MainReadAndScrape ==
  /\ pc = "constructed"
  /\ \E startups \in NameLists, proceed \in BOOLEAN :
       /\ issued + Len(startups) <= MaxQueries
       /\ IF startups = <<>> \/ ~proceed
          THEN /\ pc' = "exit"
               /\ UNCHANGED <<names, i>>
          ELSE /\ pc' = "loop"
               /\ names' = startups
               /\ i' = 1
  /\ UNCHANGED <<output_file, results, self_results, ckpt, final_file,
                 partial_file, ret, report, lastSearch, searchCalls, apiCalls,
                 queried, delays, wfaults, faulted, issued, arg, cred,
                 outstanding, lastWritten>>

NextMain ==
  \/ Construct
  \/ MainReadAndScrape
  \/ SearchCall
  \/ ProcessEntity
  \/ Pace
  \/ Finish
  \/ MainAfterRun
  \/ Interrupt

SpecMain == InitMain /\ [][NextMain]_vars

\* ------------------------------------- search_startup_info called on its own
\* the pieces of the texts the query capability answers with: braces, prose
\* and members whose own text holds no brace
TextTokens == {"{", "}", "w", "hs:YES", "d"}

SearchOutcomes ==
  {Fault("timeout")} \cup {Answer(t) : t \in SeqsUpTo(TextTokens, MaxTextLen)}

\* searcher.search_startup_info(startup_name), as the main of
\* startup_searcher.py calls it (line 190)
SearchDirect ==
  /\ pc = "idle"
  /\ \E name \in NameSet, outcome \in SearchOutcomes :
       LET sr == SearchStartupInfo(name, outcome)
       IN /\ info' = sr.val
          /\ searchExc' = sr.exc
          /\ lastOutcome' = outcome
          /\ apiCalls' = sr.calls
          /\ queried' = <<name>>
  /\ searchCalls' = 1
  /\ pc' = "searched"
  /\ UNCHANGED <<names, output_file, i, results, self_results, ckpt,
                 final_file, partial_file, ret, report, delays, wfaults,
                 faulted, issued, arg, cred, outstanding, lastWritten>>

NextNorm == SearchDirect

SpecNorm == Init /\ [][NextNorm]_vars

\* ================================================================== claims
Running == pc \in {"loop", "query", "paced"}
ContactKeys == {"website", "email", "linkedin", "twitter", "other"}

\* C1: a call of scrape_startups on a non-empty list completes normally and
\* returns exactly len(names) records, whatever happened to each entity.
C1_OneResultPerName ==
  /\ pc # "raised"
  /\ (pc = "returned" /\ names # <<>>) => Len(ret) = Len(names)

\* C2: after an interrupt with at least one record accumulated, the caller
\* retrieves the accumulated records from scraper.results.
C2_PartialResultsRetrievable ==
  (pc = "interrupted" /\ Len(results) >= 1) => self_results = results

\* C3: with an output_file and no write fault, once an entity is processed
\* (by either fault boundary or without fault) and until the next one is,
\* the checkpoint file holds the whole in-memory result sequence.
C3_CheckpointAfterEveryEntity ==
  (Running /\ output_file /\ wfaults = 0 /\ results # <<>>)
    => ckpt = Written(results)

\* C4: a fault while processing an entity never aborts the batch: no
\* exception leaves the loop, a returned run has queried every name in
\* order, and every faulting entity has a record with error set.
C4_FaultNeverAborts ==
  /\ pc # "raised"
  /\ (pc = "returned" /\ names # <<>>) => queried = names
  /\ (Running \/ pc = "returned") =>
       \A k \in faulted :
         \E j \in DOMAIN results :
           HasError(results[j]) /\ Get(results[j], "startup_name", "") = names[k]

C4_Witness ==
  /\ pc = "returned"
  /\ Len(names) = 2
  /\ 1 \in faulted
  /\ queried = names
  /\ Get(info, "startup_name", "") = names[2]

\* C5: a checkpoint write fault leaves exactly the record just returned by
\* the search appended, adds no error record, keeps self.results, and the
\* run goes on to the pacing step.
C5_WriteFaultContained ==
  [][(wfaults' = wfaults + 1) =>
       /\ results' = Append(results, info')
       /\ pc' = "paced"
       /\ self_results' = self_results]_vars

C5_Witness ==
  /\ pc = "query"
  /\ i = 2
  /\ wfaults = 1
  /\ Len(results) = 1
  /\ ckpt # Written(results)

\* C6: search_startup_info invokes the query capability once per call, no
\* exception leaves it, and after a fault it returns the error record
\* (error set, the fixed description, "unknown", all contacts "Not found").
C6_SearchContainsFaults ==
  /\ searchExc = "none"
  /\ apiCalls = searchCalls
  /\ lastOutcome.kind = "fault" =>
       /\ HasError(info)
       /\ info.description = ErrorDescription
       /\ info.hiring_status = Unknown
       /\ info.contact_info.kind = "dict"
       /\ DOMAIN info.contact_info.map = ContactKeys
       /\ \A key \in ContactKeys : info.contact_info.map[key] = "Not found"

C6_Witness ==
  /\ pc = "paced"
  /\ lastOutcome.kind = "fault"
  /\ searchCalls = 2
  /\ HasError(info)

\* C7: every record in the result sequence has description, keywords,
\* hiring_status and contact_info present.
C7_AllFieldsPresent ==
  \A k \in DOMAIN results :
    {"description", "keywords", "hiring_status", "contact_info"}
      \subseteq DOMAIN results[k]

\* C8: a call of scrape_startups on an empty list returns the empty
\* sequence at once, with no query, no delay, no write to any file and no
\* change of self.results.
C8_EmptyListNoEffects ==
  [][(pc \in {"idle", "interrupted"} /\ pc' # pc /\ names' = <<>>) =>
       /\ pc' = "returned"
       /\ ret' = <<>>
       /\ searchCalls' = 0
       /\ apiCalls' = 0
       /\ issued' = issued
       /\ delays' = 0
       /\ ckpt' = ckpt
       /\ partial_file' = partial_file
       /\ self_results' = self_results]_vars

C8_Witness ==
  /\ pc = "returned"
  /\ names = <<>>
  /\ output_file
  /\ ret = <<>>
  /\ self_results # <<>>
  /\ ckpt.status = "absent"

\* C9: one delay after each entity but the last: while entity i is queried
\* or processed i-1 delays were taken, and a returned run over n names took
\* n-1, whether or not entities failed.
C9_DelayBetweenEntities ==
  /\ pc \in {"query", "paced"} => delays = i - 1
  /\ (pc = "loop" /\ i <= Len(names)) => delays = i - 1
  /\ (pc = "returned" /\ names # <<>>) => delays = Len(names) - 1

C9_Witness ==
  /\ pc = "returned"
  /\ Len(names) = 2
  /\ delays = 1
  /\ faulted = {1}
  /\ Len(results) = 3

\* C10: for a non-empty sequence whose statuses are strings, the report has
\* success = N - errors with errors the number of records with error set;
\* yes and no count the spellings of "yes" and "no" in any case, unknown
\* counts every other record (other strings, the empty string, no status),
\* yes + no + unknown = N and no count is negative.
YesSpellings == {<<a, b, c>> : a \in {"y", "Y"}, b \in {"e", "E"}, c \in {"s", "S"}}
NoSpellings == {<<a, b>> : a \in {"n", "N"}, b \in {"o", "O"}}

StatusIn(r, spellings) ==
  "hiring_status" \in DOMAIN r /\ r.hiring_status.chars \in spellings

C10_ReportCounts ==
  (arg.given /\ report.stage \in {"raised_contact", "printed"}) =>
    LET rs == arg.value
        N == Len(rs)
        others == {k \in DOMAIN rs :
                     ~StatusIn(rs[k], YesSpellings \cup NoSpellings)}
    IN /\ N >= 1
       /\ report.total = N
       /\ report.errors = Cardinality({k \in DOMAIN rs : "error" \in DOMAIN rs[k]})
       /\ report.successful = N - report.errors
       /\ report.hiring_yes =
            Cardinality({k \in DOMAIN rs : StatusIn(rs[k], YesSpellings)})
       /\ report.hiring_no =
            Cardinality({k \in DOMAIN rs : StatusIn(rs[k], NoSpellings)})
       /\ report.hiring_unknown = Cardinality(others)
       /\ report.hiring_yes + report.hiring_no + report.hiring_unknown = N
       /\ report.successful + report.errors = N
       /\ \A c \in {report.successful, report.errors, report.hiring_yes,
                    report.hiring_no, report.hiring_unknown} : c >= 0

C10_Witness ==
  /\ arg.given
  /\ report.stage = "printed"
  /\ report.total = 2
  /\ report.hiring_yes = 1
  /\ report.hiring_unknown = 1
  /\ report.errors = 1
  /\ StatusIn(arg.value[1], {<<"Y", "E", "S">>})

\* C11: generate_summary_report never divides by zero.  When the sequence to
\* analyze is empty (given explicitly, or not given while self.results is
\* empty) it reports that there is nothing to analyze and computes nothing;
\* every division of a report that prints has a divisor N >= 1.
C11_NoDivisionByZero ==
  report # NoReport =>
    LET rs == IF arg.given THEN arg.value ELSE self_results
    IN /\ report.stage # "raised_division"
       /\ rs = <<>> => report = [stage |-> "nothing"]
       /\ report.stage = "printed" =>
            report.divisor >= 1 /\ report.divisor = Len(rs)

C11_Witness ==
  /\ ~arg.given
  /\ self_results = <<>>
  /\ report = [stage |-> "nothing"]

\* C12: a missing credential (no api_key argument and no ANTHROPIC_API_KEY
\* in the environment) is raised as a fault when the scraper is constructed,
\* before the name list is read and before any query is made; zero entities
\* are processed in that case.
C12_MissingCredentialFatal ==
  /\ (cred.api_key = "None" /\ cred.env = "None") =>
       /\ pc \in {"new", "config_fault"}
       /\ names = <<>>
       /\ issued = 0
       /\ searchCalls = 0
       /\ results = <<>>
       /\ ret = <<>>
  /\ pc = "config_fault" =>
       names = <<>> /\ issued = 0 /\ searchCalls = 0 /\ results = <<>>

C12_Witness ==
  /\ pc = "config_fault"
  /\ cred.api_key = "None"
  /\ cred.env = "None"

\* the text the query capability answered with
RawText == lastOutcome.text
Braces == {"{", "}"}
HasBrace(text) == \E k \in DOMAIN text : text[k] \in Braces
Searched == pc = "searched" /\ lastOutcome.kind = "text"

\* C13: for every raw response text containing no brace character,
\* search_startup_info returns a fallback record whose description is the
\* entire raw text, whose hiring_status is "unknown", whose contact_info
\* values are all "Not found", and which has neither a raw_response nor an
\* error field.
C13_NoBraceFallback ==
  (Searched /\ ~HasBrace(RawText)) =>
    /\ DOMAIN info =
         {"startup_name", "description", "hiring_status", "contact_info"}
    /\ info.startup_name = queried[1]
    /\ info.description = RawText
    /\ info.hiring_status = Str(<<"u", "n", "k", "n", "o", "w", "n">>)
    /\ info.contact_info.kind = "dict"
    /\ DOMAIN info.contact_info.map = ContactKeys
    /\ \A key \in ContactKeys : info.contact_info.map[key] = "Not found"

C13_Witness ==
  /\ Searched
  /\ RawText = <<"w", "hs:YES", "w">>
  /\ info.description = <<"w", "hs:YES", "w">>
  /\ "raw_response" \notin DOMAIN info

HasOpening(text) == \E k \in DOMAIN text : text[k] = "{"

\* the text from its first opening brace to its last closing brace is a JSON
\* object: members only between the two
ObjectInside(text) ==
  \E a, b \in DOMAIN text :
    /\ a < b
    /\ text[a] = "{" /\ \A k \in 1..(a - 1) : text[k] # "{"
    /\ text[b] = "}" /\ \A k \in (b + 1)..Len(text) : text[k] # "}"
    /\ \A k \in (a + 1)..(b - 1) : text[k] \notin Braces \cup {"w"}

IsFallback(r, text) ==
  /\ "description" \in DOMAIN r /\ r.description = text
  /\ "hiring_status" \in DOMAIN r
  /\ r.hiring_status = Str(<<"u", "n", "k", "n", "o", "w", "n">>)
  /\ "error" \notin DOMAIN r

\* C14 as stated: whenever a brace is found in the text and no JSON object
\* can be parsed from it, the fallback record has raw_response equal to the
\* raw text; raw_response is absent exactly when the text has no brace.
C14_RawResponseIffAnyBrace ==
  (Searched /\ ~ObjectInside(RawText)) =>
    /\ IsFallback(info, RawText)
    /\ "raw_response" \in DOMAIN info <=> HasBrace(RawText)
    /\ "raw_response" \in DOMAIN info => info.raw_response = RawText

\* C14, amended: the two fallback cases are told apart by the opening brace
\* alone.  When the text has an opening brace and no JSON object parses
\* from the first opening brace to the last closing brace, the fallback
\* record has raw_response equal to the raw text; when the text has no
\* opening brace (closing braces or not) the fallback record has no
\* raw_response.
C14_RawResponseIffOpeningBrace ==
  (Searched /\ ~ObjectInside(RawText)) =>
    /\ IsFallback(info, RawText)
    /\ "raw_response" \in DOMAIN info <=> HasOpening(RawText)
    /\ "raw_response" \in DOMAIN info => info.raw_response = RawText

C14_Witness ==
  /\ Searched
  /\ RawText = <<"w", "}">>
  /\ IsFallback(info, RawText)
  /\ "raw_response" \notin DOMAIN info

NoRepeat(q) == \A k, h \in DOMAIN q : q[k] = q[h] => k = h

\* at most one request is in flight, the k-th query of the call is for
\* names[k], and a call that returned issued one query per list entry
SequentialOrdered ==
  /\ outstanding \in {0, 1}
  /\ outstanding = 1 <=> pc = "query"
  /\ Len(queried) <= Len(names)
  /\ \A k \in DOMAIN queried : queried[k] = names[k]
  /\ apiCalls = Len(queried)
  /\ pc = "returned" => apiCalls = Len(names)

\* C15 as stated: queries are strictly sequential and ordered, and no name
\* is queried more than once.
C15_NoNameQueriedTwice == SequentialOrdered /\ NoRepeat(queried)

\* C15, amended: at most one external query is outstanding at any time, the
\* k-th query issued by scrape_startups is for names[k], every position of
\* the list is queried at most once (a name that occurs several times in the
\* list is queried once per occurrence), and a normally completed run over
\* n names issues exactly n queries.
C15_SequentialOrdered ==
  /\ SequentialOrdered
  /\ (Running \/ pc = "returned") => Len(queried) \in {i - 1, i, Len(names)}
  /\ pc = "query" => Len(queried) = i
  /\ pc = "loop" => Len(queried) = i - 1

C15_Witness ==
  /\ pc = "returned"
  /\ names = <<"A", "A">>
  /\ queried = <<"A", "A">>
  /\ apiCalls = 2
  /\ outstanding = 0

\* the j-th smallest position of a set of positions
NthOf(P, j) == CHOOSE k \in P : Cardinality({h \in P : h < k}) = j - 1

\* the report lists the records of its input whose status has one of the
\* spellings: all of them selected in input order, the first 10 listed, and
\* a remainder of h - 10 reported exactly when h > 10
ListingMatches(spellings) ==
  LET rs == arg.value
      P == {k \in DOMAIN rs : StatusIn(rs[k], spellings)}
      h == Cardinality(P)
      shown == IF h < 10 THEN h ELSE 10
  IN /\ report.hiring_companies = [j \in 1..h |-> rs[NthOf(P, j)]]
     /\ Len(report.listed) = shown
     /\ \A j \in 1..shown : report.listed[j] = rs[NthOf(P, j)]
     /\ report.more.printed <=> h > 10
     /\ report.more.printed => report.more.count = h - 10

\* C16 as stated: the hiring records are the subsequence of the input whose
\* hiring_status is "yes"; the first min(10, h) are listed and a remainder
\* of h - 10 is reported exactly when h > 10.
C16_ListsExactYes ==
  (arg.given /\ report.stage = "printed") => ListingMatches({<<"y", "e", "s">>})

\* C16, amended: the hiring records are the subsequence of the input whose
\* hiring_status equals "yes" when lowercased ("yes", "YES", "Yes", ...), in
\* input order; the first min(10, h) of the h selected records are listed
\* and a remainder of h - 10 is reported exactly when h > 10.
C16_ListsHiringInOrder ==
  (arg.given /\ report.stage = "printed") => ListingMatches(YesSpellings)

C16_Witness ==
  /\ arg.given
  /\ report.stage = "printed"
  /\ Len(arg.value) = 12
  /\ Len(report.hiring_companies) = 11
  /\ ~StatusIn(arg.value[2], YesSpellings)
  /\ Len(report.listed) = 10
  /\ report.listed[2] = arg.value[3]
  /\ report.more = [printed |-> TRUE, count |-> 1]

\* the step on which scrape_startups returns from a non-empty list
CompletesNormally ==
  /\ pc = "loop"
  /\ names # <<>>
  /\ i = Len(names) + 1
  /\ pc' = "returned"

\* the step on which the interrupt handler of main runs
HandlerRuns == pc # "interrupted" /\ pc' = "interrupted"

\* C17: self.results changes only when scrape_startups completes normally
\* on a non-empty list, where it becomes the returned sequence.  During a
\* run, after an interrupted run and after a run on an empty list it holds
\* what the previous completed run stored (initially nothing), and that
\* earlier value is what the interrupt handler saves and reports.
C17_StoredResultsFrame ==
  [][/\ self_results' # self_results =>
          CompletesNormally /\ self_results' = results /\ ret' = self_results'
     /\ CompletesNormally => self_results' = results
     /\ HandlerRuns =>
          IF self_results = <<>>
          THEN UNCHANGED <<partial_file, report>>
          ELSE /\ report'.total = Len(self_results)
               /\ partial_file' \in {partial_file, Truncated,
                                     Written(self_results)}]_vars

C17_Witness ==
  /\ pc = "interrupted"
  /\ self_results # <<>>
  /\ results # <<>>
  /\ results # self_results
  /\ Len(results) # Len(self_results)
  /\ report.total = Len(self_results)
  /\ partial_file = Written(self_results)

IsPrefix(p, q) == Len(p) <= Len(q) /\ \A k \in DOMAIN p : p[k] = q[k]

InRun == Running \/ pc \in {"returned", "interrupted"}

\* C18: at every point of a run with output_file configured, the content of
\* the last checkpoint write that succeeded is a prefix of the result
\* sequence in memory (no record that is not in memory, none out of order),
\* and it is the sequence in memory as it was when that write was made.
C18_CheckpointIsPrefix ==
  [][/\ (InRun' /\ lastWritten'.status = "written") =>
          /\ output_file'
          /\ IsPrefix(lastWritten'.content, results')
     /\ lastWritten' # lastWritten =>
          \/ lastWritten' = NoFile /\ results' = <<>>
          \/ /\ lastWritten'.status = "written"
             /\ lastWritten'.content = results'
             /\ ckpt' = lastWritten']_vars

C18_Witness ==
  /\ Running
  /\ output_file
  /\ lastWritten.status = "written"
  /\ lastWritten.content # <<>>
  /\ Len(lastWritten.content) < Len(results)

\* the records the two fault boundaries make for a name: the error record of
\* search_startup_info when the query fails, and the record the except
\* clause of scrape_startups appends when the display of a result fails
MadeByBoundary(name) ==
  {SearchStartupInfo(name, Fault("timeout")).val,
   LET sr == SearchStartupInfo(name, Answer(<<"{", "hs:null", "}">>))
       body == LoopBody(<<>>, name, sr, FALSE, NoFile, "ok")
   IN body.results[Len(body.results)]}

IsErrorRecord(r, name) ==
  /\ "error" \in DOMAIN r
  /\ r.startup_name = name
  /\ r.hiring_status = Str(<<"u", "n", "k", "n", "o", "w", "n">>)
  /\ r.contact_info.kind = "dict"
  /\ \A key \in ContactKeys : r.contact_info.map[key] = "Not found"

====
